---- MODULE Spec2Model ----
(***************************************************************************)
(* Model of ecs/step_create_instance.go: the step that creates the         *)
(* temporary ECS instance of a build (Run) and deletes it again (Cleanup). *)
(*                                                                         *)
(* Strings that the code only copies are TLA+ strings.  The user data,     *)
(* which the code encodes, is a sequence of bytes (0..255) and its base64  *)
(* form a sequence of ASCII codes.  Nil stands for Go's nil.               *)
(***************************************************************************)
EXTENDS Integers, Sequences, FiniteSets, TLC

VARIABLES
    pc,         \* position of the runner in Run / Cleanup
    s,          \* the fields of stepCreateApsaraStackInstance
    bag,        \* the multistep.StateBag
    cfg,        \* the configuration the step was constructed from (never changes)
    file,       \* the file at s.UserDataFile: [readable, data]
    request,    \* createInstanceRequest, Nil until built
    instanceId, \* Run's local instanceId, Nil until creation answered
    retryIdx,   \* loop counter i of the running WaitForExpected
    createLog,  \* the CreateInstance requests sent, in order
    pollLog,    \* the instance statuses WaitForInstanceStatus observed
    describeLog,\* the DescribeInstances requests Run itself sent, with their answers
    deleteLog,  \* the DeleteInstance requests sent, in order
    ui,         \* what was written to the packer.Ui
    clock,      \* time, advanced by every remote call
    runResult   \* "none" while Run has not ended, else how it ended

vars == <<pc, s, bag, cfg, file, request, instanceId, retryIdx, createLog, pollLog,
          describeLog, deleteLog, ui, clock, runResult>>

\* Go's nil, for pointers and errors (both are records here)
Nil == [nil |-> TRUE]

----------------------------------------------------------------------------
(* Bounds of the model *)

\* longest user data (bytes) drawn for the request-building specification
MaxUserDataLen == 3
\* most data disks in the disk mapping configuration
MaxDisks == 2
\* scale of the retry budgets of the cloud client
RetryScale == 2

----------------------------------------------------------------------------
(* Package level values *)

createInstanceRetryErrorsWide == {"IdempotentProcessing", "InvalidParameter"}
createInstanceRetryErrors == {"IdempotentProcessing"}

deleteInstanceRetryErrors == {"IncorrectInstanceStatus.Initializing"}

\* retry budgets of the client wrapper, scaled down; the spec calls the budget of
\* the deletion the shorter one
shortRetryTimes == RetryScale
defaultRetryTimes == RetryScale + 1
mediumRetryTimes == RetryScale + 1

InstanceNetworkClassic == "classic"
InstanceNetworkVpc == "vpc"
InstanceStatusStopped == "Stopped"
IOOptimizedNone == "none"
IOOptimizedOptimized == "optimized"

\* confighelper.Trilean
TriUnset == 0
TriTrue == 1
TriFalse == -1
TriTrueOf(t) == t = TriTrue
TriFalseOf(t) == t = TriFalse

\* strconv.FormatBool
FormatBool(b) == IF b THEN "true" ELSE "false"

\* convertNumber: the decimal text of a positive number, nothing otherwise
convertNumber(value) == IF value <= 0 THEN "" ELSE ToString(value)

----------------------------------------------------------------------------
(* encoding/base64, StdEncoding *)

B64Pad == 61

B64Char(i) ==
    IF i < 26 THEN 65 + i
    ELSE IF i < 52 THEN 97 + (i - 26)
    ELSE IF i < 62 THEN 48 + (i - 52)
    ELSE IF i = 62 THEN 43
    ELSE 47

RECURSIVE EncodeToString(_)
EncodeToString(b) ==
    IF Len(b) = 0 THEN <<>>
    ELSE IF Len(b) = 1 THEN
        <<B64Char(b[1] \div 4), B64Char((b[1] % 4) * 16), B64Pad, B64Pad>>
    ELSE IF Len(b) = 2 THEN
        <<B64Char(b[1] \div 4), B64Char((b[1] % 4) * 16 + b[2] \div 16),
          B64Char((b[2] % 16) * 4), B64Pad>>
    ELSE
        <<B64Char(b[1] \div 4), B64Char((b[1] % 4) * 16 + b[2] \div 16),
          B64Char((b[2] % 16) * 4 + b[3] \div 64), B64Char(b[3] % 64)>>
        \o EncodeToString(SubSeq(b, 4, Len(b)))

----------------------------------------------------------------------------
(* The state bag and the helpers of the package *)

Put(b, key, value) == (key :> value) @@ b

Has(b, key) == key \in DOMAIN b

\* uuid.TimeOrderedUUID: ordered by the time of the call
TimeOrderedUUID(now) == now

\* fmt.Errorf("%s: %s", prefix, err) of halt
WrapError(err, prefix) ==
    IF prefix # "" THEN [Code |-> err.Code, Prefix |-> prefix] ELSE err

\* halt(state, err, prefix): records the error, reports it, and Run returns
\* multistep.ActionHalt
haltBag(b, err, prefix) == Put(b, "error", WrapError(err, prefix))
haltUi(u, err, prefix) == Append(u, <<"Error", WrapError(err, prefix)>>)

\* cleanUpMessage(state, "instance"): a line on the UI
cleanUpMessage(u, what) == Append(u, <<"Say", "Cleaning up", what>>)

\* client.EvalCouldRetryResponse(evalErrors, EvalRetryErrorType)
EvalCouldRetryResponse(evalErrors, err) ==
    IF err = Nil THEN "success"
    ELSE IF err.Code \notin evalErrors THEN "failure"
    ELSE "retry"

\* the retry budget of a WaitForExpected call: RetryTimes, defaulted when unset
RetryTimesOf(args) ==
    IF args.RetryTimes <= 0 THEN defaultRetryTimes ELSE args.RetryTimes

\* one round of client.WaitForExpected, after request number i + 1 was answered
WaitForExpected(args, i, err) ==
    LET eval == EvalCouldRetryResponse(args.EvalErrors, err)
    IN  IF eval = "success" THEN "return"
        ELSE IF eval = "failure" THEN "fail"
        ELSE IF i + 1 >= RetryTimesOf(args) THEN "exhausted"
        ELSE "again"

\* one round of client.WaitForInstanceStatus, after poll number i + 1
WaitForInstanceStatus(expected, i, status) ==
    IF status = expected THEN "return"
    ELSE IF i + 1 >= mediumRetryTimes THEN "exhausted"
    ELSE "again"

----------------------------------------------------------------------------
(* stepCreateApsaraStackInstance: building the request *)

getUserDataNoEncode(st, f) ==
    IF st.UserDataFile # "" /\ ~f.readable
    THEN [userData |-> <<>>, err |-> [Code |-> "ReadFile"]]
    ELSE [userData |-> IF st.UserDataFile # "" THEN f.data ELSE st.UserData,
          err |-> Nil]

getUserData(st, f) ==
    IF st.UserDataFile # "" /\ ~f.readable
    THEN [userData |-> <<>>, err |-> [Code |-> "ReadFile"]]
    ELSE LET userData == IF st.UserDataFile # "" THEN f.data ELSE st.UserData
         IN  [userData |-> IF userData # <<>> THEN EncodeToString(userData)
                           ELSE userData,
              err |-> Nil]

\* the defaults of the classic network branch, written back to the step
NetworkDefaultsAlways(st, networkType) ==
    IF networkType = InstanceNetworkVpc THEN st
    ELSE [st EXCEPT !.InternetChargeType = "PayByTraffic",
                    !.InternetMaxBandwidthOut = 5]

NetworkDefaults(st, networkType) ==
    IF networkType = InstanceNetworkVpc THEN st
    ELSE [st EXCEPT
            !.InternetChargeType = IF @ = "" THEN "PayByTraffic" ELSE @,
            !.InternetMaxBandwidthOut = IF @ = 0 THEN 5 ELSE @]

IoOptimizedOf(t) ==
    IF TriTrueOf(t) THEN IOOptimizedOptimized
    ELSE IF TriFalseOf(t) THEN IOOptimizedNone
    ELSE ""

PasswordOf(comm) ==
    IF comm.SSHPassword = "" /\ comm.WinRMPassword # ""
    THEN comm.WinRMPassword ELSE comm.SSHPassword

\* one ecs.CreateInstanceDataDisk from one disk of the mapping
DataDiskEncryptedAlways(imageDisk) ==
    [DiskName |-> imageDisk.DiskName,
     Category |-> imageDisk.DiskCategory,
     Size |-> convertNumber(imageDisk.DiskSize),
     SnapshotId |-> imageDisk.SnapshotId,
     Description |-> imageDisk.Description,
     DeleteWithInstance |-> FormatBool(imageDisk.DeleteWithInstance),
     Device |-> imageDisk.Device,
     Encrypted |-> FormatBool(TriTrueOf(imageDisk.Encrypted))]

DataDiskOf(imageDisk) ==
    [DiskName |-> imageDisk.DiskName,
     Category |-> imageDisk.DiskCategory,
     Size |-> convertNumber(imageDisk.DiskSize),
     SnapshotId |-> imageDisk.SnapshotId,
     Description |-> imageDisk.Description,
     DeleteWithInstance |-> FormatBool(imageDisk.DeleteWithInstance),
     Device |-> imageDisk.Device,
     Encrypted |-> IF imageDisk.Encrypted # TriUnset
                   THEN FormatBool(TriTrueOf(imageDisk.Encrypted)) ELSE ""]

DataDisksOf(imageDisks) ==
    [i \in 1..Len(imageDisks) |-> DataDiskOf(imageDisks[i])]

\* buildCreateInstanceRequest: [request, err, s], s being the step afterwards
buildCreateInstanceRequest(st, b, f, now) ==
    LET config == b["config"]
        networkType == b["networktype"]
        ud == IF networkType = InstanceNetworkVpc THEN getUserData(st, f)
              ELSE [userData |-> <<>>, err |-> Nil]
        st2 == NetworkDefaults(st, networkType)
        systemDisk == config.ApsaraStackImageConfig.ECSSystemDiskMapping
    IN  IF ud.err # Nil THEN [request |-> Nil, err |-> ud.err, s |-> st]
        ELSE
        [request |->
            [Headers |-> [RegionId |-> config.ApsaraStackRegion],
             QueryParams |-> [AccessKeySecret |-> config.ApsaraStackSecretKey,
                              Product |-> "ecs",
                              Department |-> config.Department,
                              ResourceGroup |-> config.ResourceGroup],
             ClientToken |-> TimeOrderedUUID(now),
             RegionId |-> st.RegionId,
             InstanceType |-> st.InstanceType,
             InstanceName |-> st.InstanceName,
             ZoneId |-> st.ZoneId,
             ImageId |-> b["source_image"].ImageId,
             SecurityGroupId |-> b["securitygroupid"],
             VSwitchId |-> IF networkType = InstanceNetworkVpc
                           THEN b["vswitchid"] ELSE "",
             UserData |-> ud.userData,
             InternetChargeType |-> st2.InternetChargeType,
             InternetMaxBandwidthOut |->
                 convertNumber(st2.InternetMaxBandwidthOut),
             IoOptimized |-> IoOptimizedOf(st.IOOptimized),
             Password |-> PasswordOf(config.Comm),
             SystemDiskDiskName |-> systemDisk.DiskName,
             SystemDiskCategory |-> systemDisk.DiskCategory,
             SystemDiskSize |-> convertNumber(systemDisk.DiskSize),
             SystemDiskDescription |-> systemDisk.Description,
             DataDisk |->
                 DataDisksOf(config.ApsaraStackImageConfig.ECSImagesDiskMappings)],
         err |-> Nil,
         s |-> st2]

----------------------------------------------------------------------------
(* Configurations and the state after construction *)

\* all sequences over S of length at most n
SeqUpTo(S, n) == UNION {[1..k -> S] : k \in 0..n}

UserBytes == {0, 77, 255}
UserDataFilePath == "user-data.sh"
InstanceIds == {"i-a", "i-b"}
ErrorCodes == {"IdempotentProcessing", "IncorrectInstanceStatus.Initializing",
               "InvalidParameter"}

DiskOf(encrypted, size, deleteWith) ==
    [DiskName |-> "data", DiskCategory |-> "cloud_ssd", DiskSize |-> size,
     SnapshotId |-> "", Description |-> "", DeleteWithInstance |-> deleteWith,
     Device |-> "", Encrypted |-> encrypted]

Disks == {DiskOf(e, n, d) : e \in {TriUnset, TriTrue, TriFalse},
                            n \in {0, 20}, d \in BOOLEAN}

InputOf(ud, udFile, f, net, charge, bw, io, sshPw, winrmPw, disks) ==
    [UserData |-> ud, UserDataFile |-> udFile, file |-> f,
     networktype |-> net, InternetChargeType |-> charge,
     InternetMaxBandwidthOut |-> bw, IOOptimized |-> io,
     SSHPassword |-> sshPw, WinRMPassword |-> winrmPw,
     disks |-> disks]

NoFile == [readable |-> FALSE, data |-> <<>>]
Files(n) == {NoFile} \cup {[readable |-> TRUE, data |-> d] : d \in SeqUpTo(UserBytes, n)}
NetworkTypes == {InstanceNetworkClassic, InstanceNetworkVpc}

\* what the request-building specification draws from: the user data sources in
\* full, the network settings in full, the disk mappings in full
UserDataInputs ==
    {InputOf(u, UserDataFilePath, f, n, "", 0, TriUnset, "pw", "", <<>>) :
        u \in SeqUpTo(UserBytes, MaxUserDataLen), f \in Files(MaxUserDataLen),
        n \in NetworkTypes}
    \cup
    {InputOf(u, "", NoFile, n, "", 0, TriUnset, "pw", "", <<>>) :
        u \in SeqUpTo(UserBytes, MaxUserDataLen), n \in NetworkTypes}

NetworkInputs ==
    {InputOf(<<>>, "", NoFile, n, c, b, io, sp, wp, <<>>) :
        n \in NetworkTypes, c \in {"", "PayByBandwidth", "PayByTraffic"},
        b \in {0, 5, 10}, io \in {TriUnset, TriTrue, TriFalse},
        sp \in {"", "ssh-pw"}, wp \in {"", "winrm-pw"}}

DiskInputs ==
    {InputOf(<<>>, "", NoFile, InstanceNetworkVpc, "", 0, TriUnset, "pw", "", d) :
        d \in SeqUpTo(Disks, MaxDisks)}

BuildInputs == UserDataInputs \cup NetworkInputs \cup DiskInputs

\* what the protocol specification draws from
RunInputs ==
    {InputOf(<<77>>, p, f, n, "", 0, TriUnset, "pw", "", d) :
        p \in {"", UserDataFilePath},
        f \in {NoFile, [readable |-> TRUE, data |-> <<0, 255>>]},
        n \in NetworkTypes,
        d \in {<<>>, <<DiskOf(TriTrue, 20, TRUE)>>}}

ConfigOf(in) ==
    [ApsaraStackRegion |-> "region-1", ApsaraStackSecretKey |-> "secret",
     Department |-> "dept", ResourceGroup |-> "rg",
     Comm |-> [SSHPassword |-> in.SSHPassword, WinRMPassword |-> in.WinRMPassword],
     ApsaraStackImageConfig |->
        [ECSSystemDiskMapping |->
            [DiskName |-> "system", DiskCategory |-> "cloud_efficiency",
             DiskSize |-> 40, Description |-> ""],
         ECSImagesDiskMappings |-> in.disks]]

StepOf(in) ==
    [IOOptimized |-> in.IOOptimized, InstanceType |-> "ecs.n1.tiny",
     UserData |-> in.UserData, UserDataFile |-> in.UserDataFile,
     instanceId |-> "", RegionId |-> "region-1",
     InternetChargeType |-> in.InternetChargeType,
     InternetMaxBandwidthOut |-> in.InternetMaxBandwidthOut,
     InstanceName |-> "packer", ZoneId |-> "zone-a", instance |-> Nil]

\* the bag as the earlier steps of the build leave it
BagOf(in) ==
    LET common == ("config" :> ConfigOf(in)) @@
                  ("networktype" :> in.networktype) @@
                  ("securitygroupid" :> "sg-1") @@
                  ("source_image" :> [ImageId |-> "img-1"])
    IN  IF in.networktype = InstanceNetworkVpc
        THEN ("vswitchid" :> "vsw-1") @@ common
        ELSE common

InitWith(inputs) ==
    \E in \in inputs :
        /\ cfg = in
        /\ s = StepOf(in)
        /\ bag = BagOf(in)
        /\ file = in.file
        /\ pc = "run"
        /\ request = Nil
        /\ instanceId = ""
        /\ retryIdx = 0
        /\ createLog = <<>>
        /\ pollLog = <<>>
        /\ describeLog = <<>>
        /\ deleteLog = <<>>
        /\ ui = <<>>
        /\ clock = 1
        /\ runResult = "none"

Init == InitWith(RunInputs)

BuildInit == InitWith(BuildInputs)

----------------------------------------------------------------------------
(* Run *)

\* Run, lines 42-51: announce, build the request, halt when that fails
RunBuild ==
    /\ pc = "run"
    /\ LET built == buildCreateInstanceRequest(s, bag, file, clock)
           said == Append(ui, <<"Say", "Creating instance...">>)
       IN  /\ s' = built.s
           /\ request' = built.request
           /\ IF built.err # Nil
              THEN /\ bag' = haltBag(bag, built.err, "")
                   /\ ui' = haltUi(said, built.err, "")
                   /\ pc' = "ran"
                   /\ runResult' = "halt"
              ELSE /\ bag' = bag
                   /\ ui' = said
                   /\ pc' = "create"
                   /\ runResult' = runResult
    /\ retryIdx' = 0
    /\ clock' = clock + 1
    /\ UNCHANGED <<cfg, file, instanceId, createLog, pollLog, describeLog,
                   deleteLog>>

\* the arguments of the WaitForExpected call of Run
CreateWaitArgsUnbounded ==
    [EvalErrors |-> createInstanceRetryErrors, RetryTimes |-> defaultRetryTimes + 2]

CreateWaitArgs ==
    [EvalErrors |-> createInstanceRetryErrors, RetryTimes |-> 0]

\* RequestFunc of Run: sends the request that was built before the loop
CreateRequestFuncRebuilt ==
    [request EXCEPT !.ClientToken = TimeOrderedUUID(clock)]

CreateRequestFunc == request

\* Run, lines 53-64: one CreateInstance request and what the retry helper makes of
\* its answer
CreateInstanceCall ==
    /\ pc = "create"
    /\ \E err \in {Nil} \cup {[Code |-> c] : c \in ErrorCodes}, id \in InstanceIds :
        LET next == WaitForExpected(CreateWaitArgs, retryIdx, err)
        IN  /\ createLog' = Append(createLog,
                    [request |-> CreateRequestFunc, err |-> err, at |-> clock])
            /\ clock' = clock + 1
            /\ CASE next = "again" ->
                      /\ retryIdx' = retryIdx + 1
                      /\ UNCHANGED <<pc, instanceId, bag, ui, runResult>>
                 [] next = "return" ->
                      /\ instanceId' = id
                      /\ pc' = "poll"
                      /\ retryIdx' = 0
                      /\ UNCHANGED <<bag, ui, runResult>>
                 [] OTHER ->
                      /\ bag' = haltBag(bag, err, "Error creating instance")
                      /\ ui' = haltUi(ui, err, "Error creating instance")
                      /\ pc' = "ran"
                      /\ runResult' = "halt"
                      /\ UNCHANGED <<retryIdx, instanceId>>
    /\ UNCHANGED <<s, cfg, file, request, pollLog, describeLog, deleteLog>>

\* Run, lines 66-69: one poll of WaitForInstanceStatus
WaitForInstanceStatusCall ==
    /\ pc = "poll"
    /\ \E status \in {"Pending", InstanceStatusStopped} :
        LET next == WaitForInstanceStatus(InstanceStatusStopped, retryIdx, status)
            err == [Code |-> "Timeout"]
        IN  /\ pollLog' = Append(pollLog, status)
            /\ clock' = clock + 1
            /\ CASE next = "again" ->
                      /\ retryIdx' = retryIdx + 1
                      /\ UNCHANGED <<pc, bag, ui, runResult>>
                 [] next = "return" ->
                      /\ pc' = "describe"
                      /\ retryIdx' = 0
                      /\ UNCHANGED <<bag, ui, runResult>>
                 [] OTHER ->
                      /\ bag' = haltBag(bag, err, "Error waiting create instance")
                      /\ ui' = haltUi(ui, err, "Error waiting create instance")
                      /\ pc' = "ran"
                      /\ runResult' = "halt"
                      /\ UNCHANGED retryIdx
    /\ UNCHANGED <<s, cfg, file, request, instanceId, createLog, describeLog,
                   deleteLog>>

\* the DescribeInstances request of Run
DescribeInstancesRequest ==
    [Headers |-> [RegionId |-> bag["config"].ApsaraStackRegion],
     QueryParams |-> [AccessKeySecret |-> bag["config"].ApsaraStackSecretKey,
                      Product |-> "ecs"],
     InstanceIds |-> "[\"" \o instanceId \o "\"]"]

\* Run, lines 71-88: fetch the descriptor and publish it.  The answer may be an
\* error, a list holding the instance, or an empty list, where Instance[0] panics
DescribeInstancesCall ==
    /\ pc = "describe"
    /\ \E answer \in {"error", "found", "empty"} :
        LET err == [Code |-> "InvalidParameter"]
            found == [InstanceId |-> instanceId, Status |-> InstanceStatusStopped]
        IN  /\ describeLog' = Append(describeLog,
                    [request |-> DescribeInstancesRequest, answer |-> answer])
            /\ clock' = clock + 1
            /\ pc' = "ran"
            /\ CASE answer = "error" ->
                      /\ bag' = haltBag(bag, err, "")
                      /\ ui' = haltUi(ui, err, "")
                      /\ runResult' = "halt"
                      /\ s' = s
                 [] answer = "empty" ->
                      /\ ui' = Append(ui, <<"Message", "Created instance", instanceId>>)
                      /\ runResult' = "panic"
                      /\ UNCHANGED <<bag, s>>
                 [] OTHER ->
                      /\ ui' = Append(ui, <<"Message", "Created instance", instanceId>>)
                      /\ s' = [s EXCEPT !.instance = found]
                      /\ bag' = Put(Put(bag, "instance", found),
                                    "instance_id", instanceId)
                      /\ runResult' = "continue"
    /\ UNCHANGED <<cfg, file, request, instanceId, retryIdx, createLog, pollLog,
                   deleteLog>>

----------------------------------------------------------------------------
(* Cleanup *)

\* the guard of Cleanup, line 92
NothingToCleanUp(st) == st.instance = Nil

\* Cleanup, lines 91-99, called by the runner once Run has ended
CleanupBegin ==
    /\ pc = "ran"
    /\ IF NothingToCleanUp(s)
       THEN /\ pc' = "cleaned"
            /\ ui' = ui
       ELSE /\ pc' = "delete"
            /\ ui' = cleanUpMessage(ui, "instance")
    /\ retryIdx' = 0
    /\ UNCHANGED <<s, bag, cfg, file, request, instanceId, createLog, pollLog,
                   describeLog, deleteLog, clock, runResult>>

\* the arguments of the WaitForExpected call of Cleanup
DeleteWaitArgsCreateSet ==
    [EvalErrors |-> createInstanceRetryErrors, RetryTimes |-> 0]

DeleteWaitArgs ==
    [EvalErrors |-> deleteInstanceRetryErrors, RetryTimes |-> shortRetryTimes]

\* RequestFunc of Cleanup
DeleteRequestFunc ==
    [Headers |-> [RegionId |-> bag["config"].ApsaraStackRegion],
     QueryParams |-> [AccessKeySecret |-> bag["config"].ApsaraStackSecretKey,
                      Product |-> "ecs",
                      Department |-> bag["config"].Department,
                      ResourceGroup |-> bag["config"].ResourceGroup],
     InstanceId |-> s.instance.InstanceId,
     Force |-> TRUE]

\* what the final error of the deletion does to the bag (lines 115-117: nothing,
\* it is only said on the UI)
CleanupErrorBagHalt(b, err) == haltBag(b, err, "Error deleting instance")

CleanupErrorBag(b, err) == b

\* Cleanup, lines 101-117: one DeleteInstance request and what the retry helper
\* makes of its answer; a final error is only said on the UI
DeleteInstanceCall ==
    /\ pc = "delete"
    /\ \E err \in {Nil} \cup {[Code |-> c] : c \in ErrorCodes} :
        LET next == WaitForExpected(DeleteWaitArgs, retryIdx, err)
        IN  /\ deleteLog' = Append(deleteLog,
                    [request |-> DeleteRequestFunc, err |-> err, at |-> clock])
            /\ clock' = clock + 1
            /\ CASE next = "again" ->
                      /\ retryIdx' = retryIdx + 1
                      /\ UNCHANGED <<pc, ui, bag>>
                 [] next = "return" ->
                      /\ pc' = "cleaned"
                      /\ UNCHANGED <<retryIdx, ui, bag>>
                 [] OTHER ->
                      /\ pc' = "cleaned"
                      /\ ui' = Append(ui, <<"Say", "Failed to clean up instance",
                                            s.instance.InstanceId, err>>)
                      /\ bag' = CleanupErrorBag(bag, err)
                      /\ UNCHANGED retryIdx
    /\ UNCHANGED <<s, cfg, file, request, instanceId, createLog, pollLog,
                   describeLog, runResult>>

----------------------------------------------------------------------------
(* Specifications *)

Next ==
    \/ RunBuild
    \/ CreateInstanceCall
    \/ WaitForInstanceStatusCall
    \/ DescribeInstancesCall
    \/ CleanupBegin
    \/ DeleteInstanceCall

\* the whole step, on a few configurations
Spec == Init /\ [][Next]_vars

\* the request building of Run alone, on every configuration within the bounds
BuildNext == RunBuild

BuildSpec == BuildInit /\ [][BuildNext]_vars

----------------------------------------------------------------------------
(* Vocabulary of the properties *)

Last(q) == q[Len(q)]

\* err is an error of the vendor whose code is in the set codes
Retryable(codes, err) == err # Nil /\ err.Code \in codes

\* err is an error whose code is outside the set codes
Fatal(codes, err) == err # Nil /\ err.Code \notin codes

Published == Has(bag, "instance") \/ Has(bag, "instance_id")

BuildOK == request # Nil
CreateOK == instanceId # ""
PollOK == pollLog # <<>> /\ Last(pollLog) = "Stopped"
RefetchOK == describeLog # <<>> /\ Last(describeLog).answer # "error"

\* the payload the user data settings resolve to: the file when a path is set
Resolved == IF cfg.UserDataFile # "" THEN file.data ELSE cfg.UserData

\* base64 read backwards, to state what an encoding is without the encoder
B64Index(c) ==
    IF c >= 65 /\ c <= 90 THEN c - 65
    ELSE IF c >= 97 /\ c <= 122 THEN c - 71
    ELSE IF c >= 48 /\ c <= 57 THEN c + 4
    ELSE IF c = 43 THEN 62
    ELSE 63

RECURSIVE DecodeString(_)
DecodeString(e) ==
    IF Len(e) < 4 THEN <<>>
    ELSE LET n1 == B64Index(e[1])
             n2 == B64Index(e[2])
             n3 == B64Index(e[3])
             n4 == B64Index(e[4])
             rest == DecodeString(SubSeq(e, 5, Len(e)))
         IN  IF e[3] = 61 THEN <<n1 * 4 + n2 \div 16>>
             ELSE IF e[4] = 61
                  THEN <<n1 * 4 + n2 \div 16, (n2 % 16) * 16 + n3 \div 4>>
             ELSE <<n1 * 4 + n2 \div 16, (n2 % 16) * 16 + n3 \div 4,
                    (n3 % 4) * 64 + n4>> \o rest

\* e is the standard base64 text of the bytes b
IsBase64Of(e, b) ==
    /\ Len(e) = 4 * ((Len(b) + 2) \div 3)
    /\ \A i \in 1..Len(e) :
          \/ e[i] \in (65..90) \cup (97..122) \cup (48..57) \cup {43, 47}
          \/ e[i] = 61 /\ i > Len(e) - 2
    /\ DecodeString(e) = b
    /\ e = EncodeToString(b)

----------------------------------------------------------------------------
(* Properties of Run and Cleanup, checked under Spec *)

\* C1, as stated: a creation answer with a code outside {IdempotentProcessing}
\* is never retried and halts Run, with exactly one creation request sent in the
\* execution and no poll, re-fetch or publish.
C1_ExactlyOneRequest ==
    \A i \in 1..Len(createLog) :
        Fatal({"IdempotentProcessing"}, createLog[i].err) =>
            /\ Len(createLog) = 1
            /\ runResult = "halt"
            /\ pollLog = <<>> /\ describeLog = <<>> /\ ~Published

\* C1, amended: a creation answer with a code outside {IdempotentProcessing} is
\* never retried and halts Run: the request it answers is the last creation
\* request of the execution (the only one when it is the first), the error is in
\* the bag, and no poll, re-fetch or publish follows.
C1_FatalCreateHalts ==
    \A i \in 1..Len(createLog) :
        Fatal({"IdempotentProcessing"}, createLog[i].err) =>
            /\ i = Len(createLog)
            /\ \A j \in 1..(i - 1) :
                  Retryable({"IdempotentProcessing"}, createLog[j].err)
            /\ runResult = "halt"
            /\ pc \in {"ran", "cleaned"}
            /\ Has(bag, "error") /\ bag["error"].Code = createLog[i].err.Code
            /\ instanceId = ""
            /\ pollLog = <<>> /\ describeLog = <<>> /\ ~Published

C1_Witness ==
    /\ Len(createLog) = 2
    /\ Retryable({"IdempotentProcessing"}, createLog[1].err)
    /\ Fatal({"IdempotentProcessing"}, createLog[2].err)
    /\ runResult = "halt"

\* C2: when k < defaultRetryTimes creation attempts fail with IdempotentProcessing
\* and attempt k + 1 succeeds, Run goes on to the status poll without a creation
\* error, and all k + 1 requests carry the one client token that was generated
\* before the first attempt.
C2_RetriesKeepToken ==
    ( /\ createLog # <<>>
      /\ Last(createLog).err = Nil
      /\ Len(createLog) - 1 < defaultRetryTimes
      /\ \A i \in 1..(Len(createLog) - 1) :
            Retryable({"IdempotentProcessing"}, createLog[i].err) )
    =>
    /\ CreateOK
    /\ pc = "poll" \/ pollLog # <<>>
    /\ Has(bag, "error") => ~( /\ "Prefix" \in DOMAIN bag["error"]
                               /\ bag["error"].Prefix = "Error creating instance" )
    /\ \A i \in 1..Len(createLog) :
          /\ createLog[i].request.ClientToken = createLog[1].request.ClientToken
          /\ createLog[i].request = request
          /\ createLog[i].request.ClientToken < createLog[1].at

C2_Witness ==
    /\ Len(createLog) = defaultRetryTimes
    /\ Last(createLog).err = Nil
    /\ \A i \in 1..(Len(createLog) - 1) :
          Retryable({"IdempotentProcessing"}, createLog[i].err)
    /\ pc = "poll"

\* C3, as stated: once Cleanup has finished, every instance the creation call
\* returned has had a deletion requested for its id, also when Run halted at the
\* status poll or at the re-fetch.
C3_CreatedIsDeleted ==
    (pc = "cleaned" /\ CreateOK /\ runResult \in {"continue", "halt"}) =>
        \E i \in 1..Len(deleteLog) : deleteLog[i].request.InstanceId = instanceId

\* C4: Cleanup sends and writes nothing when no instance was created, ends within
\* its retry budget in every case, and never touches the bag (no error, no halt)
\* nor the outcome of Run; a deletion that finally failed is only said on the UI.
C4_CleanupStep ==
    pc \in {"ran", "delete"} =>
        /\ pc' \in {"delete", "cleaned"}
        /\ bag' = bag /\ runResult' = runResult /\ s' = s
        /\ (pc = "ran" /\ ~CreateOK) =>
               /\ pc' = "cleaned"
               /\ deleteLog' = deleteLog /\ ui' = ui /\ clock' = clock
        /\ (pc = "delete" /\ pc' = "cleaned" /\ Last(deleteLog').err # Nil) =>
               /\ Len(ui') = Len(ui) + 1
               /\ Last(ui')[1] = "Say"
               /\ Last(ui')[2] = "Failed to clean up instance"
        /\ (pc = "delete" /\ Fatal({"IncorrectInstanceStatus.Initializing"},
                                   Last(deleteLog').err)) => pc' = "cleaned"

C4_CleanupNeverEscalates ==
    /\ [](pc = "delete" => Len(deleteLog) < shortRetryTimes)
    /\ [][C4_CleanupStep]_vars

C4_Witness ==
    /\ pc = "cleaned"
    /\ deleteLog # <<>>
    /\ Fatal({"IncorrectInstanceStatus.Initializing"}, Last(deleteLog).err)
    /\ ~Has(bag, "error")
    /\ runResult = "continue"

\* C5, as stated: Run returns continue exactly when request build, creation, poll
\* and re-fetch all succeeded; the keys instance and instance_id are written only
\* then, together; a Run that ended otherwise returned halt, wrote neither key
\* and ran no stage after the failed one.
C5_ContinueIffAllStages ==
    /\ (runResult = "continue") <=> (BuildOK /\ CreateOK /\ PollOK /\ RefetchOK)
    /\ Published =>
          /\ runResult = "continue"
          /\ Has(bag, "instance") /\ Has(bag, "instance_id")
          /\ bag["instance_id"] = instanceId
          /\ bag["instance"].InstanceId = instanceId
    /\ (runResult # "none" /\ ~(BuildOK /\ CreateOK /\ PollOK /\ RefetchOK)) =>
          /\ runResult = "halt"
          /\ Has(bag, "error")
          /\ ~Published
          /\ ~BuildOK => createLog = <<>>
          /\ ~CreateOK => pollLog = <<>>
          /\ ~PollOK => describeLog = <<>>

\* C6: when every creation attempt fails with IdempotentProcessing, at most
\* defaultRetryTimes creation requests are sent, and with the last of them Run
\* has returned halt.
C6_CreateRetriesBounded ==
    /\ Len(createLog) <= defaultRetryTimes
    /\ ( /\ createLog # <<>>
         /\ \A i \in 1..Len(createLog) :
               Retryable({"IdempotentProcessing"}, createLog[i].err) ) =>
          /\ Len(createLog) < defaultRetryTimes => pc = "create"
          /\ Len(createLog) = defaultRetryTimes =>
                /\ runResult = "halt"
                /\ pc \in {"ran", "cleaned"}
                /\ Has(bag, "error")
                /\ pollLog = <<>> /\ describeLog = <<>> /\ ~Published

C6_Witness ==
    /\ Len(createLog) = defaultRetryTimes
    /\ \A i \in 1..Len(createLog) :
          Retryable({"IdempotentProcessing"}, createLog[i].err)
    /\ runResult = "halt"

\* C10: with an instance recorded, Cleanup sends deletion requests for the
\* recorded id with Force set; an answer with a code outside
\* {IncorrectInstanceStatus.Initializing} ends Cleanup with that request, one
\* inside it is retried, and at most shortRetryTimes requests are sent; the two
\* retry sets are disjoint.
C10_DeleteRetries ==
    /\ createInstanceRetryErrors \cap deleteInstanceRetryErrors = {}
    /\ Len(deleteLog) <= shortRetryTimes
    /\ deleteLog # <<>> => s.instance # Nil /\ pc \in {"delete", "cleaned"}
    /\ (s.instance # Nil /\ pc = "cleaned") => deleteLog # <<>>
    /\ \A i \in 1..Len(deleteLog) :
          /\ deleteLog[i].request.InstanceId = s.instance.InstanceId
          /\ deleteLog[i].request.InstanceId = bag["instance_id"]
          /\ deleteLog[i].request.Force = TRUE
          /\ Fatal({"IncorrectInstanceStatus.Initializing"}, deleteLog[i].err) =>
                i = Len(deleteLog) /\ pc = "cleaned"
          /\ deleteLog[i].err = Nil => i = Len(deleteLog) /\ pc = "cleaned"
          /\ Retryable({"IncorrectInstanceStatus.Initializing"}, deleteLog[i].err) =>
                IF i < shortRetryTimes
                THEN i < Len(deleteLog) \/ pc = "delete"
                ELSE pc = "cleaned"

C10_Witness ==
    /\ Len(deleteLog) = shortRetryTimes
    /\ \A i \in 1..Len(deleteLog) :
          Retryable({"IncorrectInstanceStatus.Initializing"}, deleteLog[i].err)
    /\ pc = "cleaned"

----------------------------------------------------------------------------
(* Properties of the request building, checked under BuildSpec *)

\* C7, as stated: whatever the network mode, the request carries the base64 text
\* of the resolved user data when that is not empty and an empty field when it
\* is, and an unreadable user data file halts Run before any creation request.
C7_UserDataAlwaysSent ==
    pc # "run" =>
        IF cfg.UserDataFile # "" /\ ~file.readable
        THEN runResult = "halt" /\ request = Nil /\ createLog = <<>>
        ELSE /\ request # Nil
             /\ IF Resolved = <<>> THEN request.UserData = <<>>
                ELSE IsBase64Of(request.UserData, Resolved)

\* C7, amended: in private-network (VPC) mode the request carries the base64
\* text of the resolved user data when that is not empty and an empty field when
\* it is, and an unreadable user data file halts Run before any creation
\* request; in classic mode the user data is not resolved at all: the field is
\* empty and the file is not read, so that it cannot fail the build.
C7_UserDataVpcOnly ==
    pc # "run" =>
        IF cfg.networktype = InstanceNetworkVpc
        THEN IF cfg.UserDataFile # "" /\ ~file.readable
             THEN /\ runResult = "halt" /\ pc = "ran"
                  /\ request = Nil /\ createLog = <<>>
                  /\ Has(bag, "error") /\ bag["error"].Code = "ReadFile"
                  /\ ~ENABLED CreateInstanceCall
             ELSE /\ request # Nil /\ pc = "create" /\ runResult = "none"
                  /\ IF Resolved = <<>> THEN request.UserData = <<>>
                     ELSE /\ IsBase64Of(request.UserData, Resolved)
                          /\ request.UserData # Resolved
        ELSE /\ request # Nil /\ pc = "create" /\ runResult = "none"
             /\ request.UserData = <<>>

C7_Witness ==
    /\ pc = "create"
    /\ cfg.networktype = InstanceNetworkVpc
    /\ cfg.UserDataFile # "" /\ cfg.UserData # <<>>
    /\ Len(Resolved) = 2 /\ Resolved # cfg.UserData
    /\ IsBase64Of(request.UserData, Resolved)

\* C8: in classic mode the request's charge type is PayByTraffic exactly when
\* none is configured and its bandwidth 5 exactly when 0 is configured, a
\* configured value being sent as it is; in VPC mode the configured values are
\* sent without any default (a bandwidth of 0 as the empty field).
C8_ClassicDefaults ==
    pc = "create" =>
        IF cfg.networktype = InstanceNetworkVpc
        THEN /\ request.InternetChargeType = cfg.InternetChargeType
             /\ request.InternetMaxBandwidthOut =
                    IF cfg.InternetMaxBandwidthOut = 0 THEN ""
                    ELSE ToString(cfg.InternetMaxBandwidthOut)
             /\ s.InternetChargeType = cfg.InternetChargeType
             /\ s.InternetMaxBandwidthOut = cfg.InternetMaxBandwidthOut
        ELSE /\ request.InternetChargeType =
                    IF cfg.InternetChargeType = "" THEN "PayByTraffic"
                    ELSE cfg.InternetChargeType
             /\ request.InternetMaxBandwidthOut =
                    IF cfg.InternetMaxBandwidthOut = 0 THEN "5"
                    ELSE ToString(cfg.InternetMaxBandwidthOut)

C8_Witness ==
    /\ pc = "create"
    /\ cfg.networktype = InstanceNetworkClassic
    /\ cfg.InternetChargeType = "PayByBandwidth"
    /\ cfg.InternetMaxBandwidthOut = 0
    /\ request.InternetChargeType = "PayByBandwidth"
    /\ request.InternetMaxBandwidthOut = "5"

\* C9: the request carries one data disk per disk of the mapping, in the same
\* order, whose Encrypted field is empty for unset, "true" for true and "false"
\* for false.
C9_DataDisks ==
    pc = "create" =>
        /\ Len(request.DataDisk) = Len(cfg.disks)
        /\ \A i \in 1..Len(cfg.disks) :
              /\ request.DataDisk[i].Encrypted =
                    IF cfg.disks[i].Encrypted = 0 THEN ""
                    ELSE IF cfg.disks[i].Encrypted = 1 THEN "true"
                    ELSE "false"
              /\ request.DataDisk[i].Size =
                    IF cfg.disks[i].DiskSize = 0 THEN ""
                    ELSE ToString(cfg.disks[i].DiskSize)
              /\ request.DataDisk[i].DeleteWithInstance =
                    IF cfg.disks[i].DeleteWithInstance THEN "true" ELSE "false"

C9_Witness ==
    /\ pc = "create"
    /\ Len(cfg.disks) = 2
    /\ cfg.disks[1].Encrypted = 0 /\ request.DataDisk[1].Encrypted = ""
    /\ cfg.disks[2].Encrypted = -1 /\ request.DataDisk[2].Encrypted = "false"
    /\ cfg.disks[1].DiskSize # cfg.disks[2].DiskSize

====
